---------------------------- MODULE Spec2Model ----------------------------
(***************************************************************************)
(* A model of h2h's batch conversion engine (internal.ConvertPosts and    *)
(* the converters it drives): the directory walk, the errgroup-bounded    *)
(* conversion tasks, the destination file system and the aggregate        *)
(* result.  Documents are sequences of tokens; the three-character        *)
(* delimiter "---" is one token, so strings.SplitN is computed on them.   *)
(***************************************************************************)
EXTENDS Integers, Sequences, FiniteSets, TLC

(***************************************************************************)
(* Bounds of the model.                                                    *)
(***************************************************************************)
\* cfg.MaxConcurrency ranges over 1..MaxLimit
MaxLimit == 2
\* at most this many file I/O faults are injected in one batch run
MaxFaults == 1
\* a sample front matter record has at most this many fields
MaxFields == 2
\* a converter used on its own converts its document this many times
MaxRuns == 2

(***************************************************************************)
(* Tokens and documents.                                                   *)
(***************************************************************************)
Tok(t, k, v) == [t |-> t, k |-> k, v |-> v]
\* the delimiter "---"
Delim == Tok("---", "", "")
\* "\n"
NL == Tok("nl", "", "")
\* a run of text holding neither a delimiter nor a newline
Text(s) == Tok("text", "", s)
\* the YAML line "k: v\n"
YField(k, v) == Tok("yaml", k, v)
\* the TOML line "k = v\n"
TField(k, v) == Tok("toml", k, v)

\* every field name of the model, in the byte order both encoders sort by
KeyOrder ==
    << "author", "categories", "date", "description", "keywords", "lastmod",
       "permalink", "slug", "tags", "title", "updated" >>

RECURSIVE IndexOf(_, _, _)
\* the least i >= from with s[i] = x, or 0 (strings.Index)
IndexOf(s, x, from) ==
    IF from > Len(s) THEN 0
    ELSE IF s[from] = x THEN from
    ELSE IndexOf(s, x, from + 1)

\* a split at every delimiter, of which the first three parts are kept
SplitNCutting(s, n) ==
    LET i == IndexOf(s, Delim, 1)
        j == IF i = 0 THEN 0 ELSE IndexOf(s, Delim, i + 1)
        k == IF j = 0 THEN 0 ELSE IndexOf(s, Delim, j + 1)
    IN  IF i = 0 THEN << s >>
        ELSE IF j = 0 THEN << SubSeq(s, 1, i - 1), SubSeq(s, i + 1, Len(s)) >>
        ELSE << SubSeq(s, 1, i - 1), SubSeq(s, i + 1, j - 1),
                SubSeq(s, j + 1, IF k = 0 THEN Len(s) ELSE k - 1) >>

RECURSIVE SplitN(_, _)
\* strings.SplitN(s, "---", n) for n > 0: at most n parts, the last unsplit
SplitN(s, n) ==
    LET i == IndexOf(s, Delim, 1) IN
      IF n <= 1 \/ i = 0 THEN << s >>
      ELSE << SubSeq(s, 1, i - 1) >> \o SplitN(SubSeq(s, i + 1, Len(s)), n - 1)

(***************************************************************************)
(* Field maps.                                                             *)
(***************************************************************************)
getHexoToHugoKeyMap ==
    [k \in {"title", "categories", "date", "description", "keywords",
            "permalink", "tags", "updated"} |->
        CASE k = "permalink" -> "slug"
          [] k = "updated" -> "lastmod"
          [] OTHER -> k]

\* an inverse table kept by hand, in which "slug" was forgotten
DriftedHugoToHexoKeyMap ==
    [h \in {"title", "categories", "date", "description", "keywords", "tags",
            "lastmod"} |->
        IF h = "lastmod" THEN "updated" ELSE h]

\* built by iterating the forward map and storing inverse[hugo] = hexo
getHugoToHexoKeyMap ==
    LET fwd == getHexoToHugoKeyMap IN
      [h \in {fwd[k] : k \in DOMAIN fwd} |-> CHOOSE k \in DOMAIN fwd : fwd[k] = h]

\* NewFrontMatterConverter: "hexo2hugo" selects the forward map, anything else the inverse
KeyMapOf(direction) ==
    IF direction = "hexo2hugo" THEN getHexoToHugoKeyMap ELSE getHugoToHexoKeyMap

(***************************************************************************)
(* Codecs.  Results are records [ok, err, val].                            *)
(***************************************************************************)
Fields(block, kind) == { i \in 1..Len(block) : block[i].t = kind }

\* a block decodes in a format iff it holds only newlines and lines of that
\* format, with no key twice
Decodable(block, kind) ==
    /\ \A i \in 1..Len(block) : block[i].t \in {"nl", kind}
    /\ \A i, j \in Fields(block, kind) : block[i].k = block[j].k => i = j

NoRecord == [k \in {} |-> ""]

\* the Metadata Record a block decodes to: field name -> value
DecodeAs(block, kind) ==
    IF Decodable(block, kind)
    THEN [ok |-> TRUE, err |-> "none",
          val |-> [k \in {block[i].k : i \in Fields(block, kind)} |->
                     block[CHOOSE i \in Fields(block, kind) : block[i].k = k].v]]
    ELSE [ok |-> FALSE, err |-> "decode", val |-> NoRecord]

\* a decoder that falls back to YAML for a format it does not know
unmarshalDefaulting(format, data) ==
    IF format = "toml" THEN DecodeAs(data, "toml") ELSE DecodeAs(data, "yaml")

unmarshalFrontMatter(format, data) ==
    CASE format = "yaml" -> DecodeAs(data, "yaml")
      [] format = "toml" -> DecodeAs(data, "toml")
      [] OTHER -> [ok |-> FALSE, err |-> "unsupported", val |-> NoRecord]

\* the lines of a record in a format, keys in sorted order
EncodeFields(rec, kind) ==
    LET keys == SelectSeq(KeyOrder, LAMBDA k : k \in DOMAIN rec) IN
      [i \in 1..Len(keys) |-> Tok(kind, keys[i], rec[keys[i]])]

marshalFrontMatter(format, rec) ==
    CASE format = "yaml" ->
           [ok |-> TRUE, err |-> "none",
            val |-> IF DOMAIN rec = {} THEN << Text("{}"), NL >>
                    ELSE EncodeFields(rec, "yaml")]
      [] format = "toml" ->
           [ok |-> TRUE, err |-> "none", val |-> EncodeFields(rec, "toml")]
      [] OTHER -> [ok |-> FALSE, err |-> "unsupported", val |-> << >>]

(***************************************************************************)
(* The converters.                                                         *)
(***************************************************************************)
\* a lookup that takes the zero value for a field the map does not hold
ConvertedKeyMappedOnly(keyMap, key) ==
    IF key \in DOMAIN keyMap THEN keyMap[key] ELSE ""

\* the key a field is stored under: its mapped name, or its own name
ConvertedKey(keyMap, key) ==
    IF key \in DOMAIN keyMap THEN keyMap[key] ELSE key

\* a loop that leaves out a key that several fields are stored under
ConvertedMapsDropping(rec, keyMap) ==
    LET sources(tk) == {k \in DOMAIN rec : ConvertedKey(keyMap, k) = tk}
        targets == {tk \in {ConvertedKey(keyMap, k) : k \in DOMAIN rec} :
                      Cardinality(sources(tk)) = 1}
    IN  {[tk \in targets |-> rec[CHOOSE k \in sources(tk) : TRUE]]}

\* the records the remapping loop can build: Go iterates the map in an
\* unspecified order, so of several fields stored under one key any can be last
ConvertedMaps(rec, keyMap) ==
    LET targets == {ConvertedKey(keyMap, k) : k \in DOMAIN rec}
        sources(tk) == {k \in DOMAIN rec : ConvertedKey(keyMap, k) = tk}
    IN  {m \in [targets -> {rec[k] : k \in DOMAIN rec}] :
           \A tk \in targets : \E k \in sources(tk) : m[tk] = rec[k]}

\* a wrapping that forgets the closing delimiter
WrappedOpenOnly(block) == << Delim, NL >> \o block

\* Sprintf("---\n%s---", block)
Wrapped(block) == << Delim, NL >> \o block \o << Delim >>

\* FrontMatterConverter.ConvertFrontMatter: the set of possible results
ConvertFrontMatter(cfg, frontMatter) ==
    LET dec == unmarshalFrontMatter(cfg.SourceFormat, frontMatter) IN
      IF ~dec.ok THEN {[ok |-> FALSE, err |-> dec.err, val |-> << >>]}
      ELSE {LET enc == marshalFrontMatter(cfg.TargetFormat, m) IN
              IF ~enc.ok THEN [ok |-> FALSE, err |-> enc.err, val |-> << >>]
              ELSE [ok |-> TRUE, err |-> "none",
                    val |-> Wrapped(enc.val)]
            : m \in ConvertedMaps(dec.val, KeyMapOf(cfg.ConversionDirection))}

\* a converter that takes a document without two delimiters as all body,
\* with empty front matter
ConvertMarkdownLenient(cfg, content) ==
    LET parts == SplitN(content, 3)
        block == IF Len(parts) < 3 THEN << >> ELSE parts[2]
        body == IF Len(parts) < 3 THEN content ELSE parts[3]
    IN  {IF ~r.ok THEN r
         ELSE [ok |-> TRUE, err |-> "none", val |-> r.val \o << NL, NL >> \o body]
         : r \in ConvertFrontMatter(cfg, block)}

\* MarkdownConverter.ConvertMarkdown on content that was read: the set of
\* possible results, val being what is handed to the writer
ConvertMarkdown(cfg, content) ==
    LET parts == SplitN(content, 3) IN
      IF Len(parts) < 3 THEN {[ok |-> FALSE, err |-> "split", val |-> << >>]}
      ELSE {IF ~r.ok THEN r
            ELSE [ok |-> TRUE, err |-> "none",
                  val |-> r.val \o << NL, NL >> \o parts[3]]
            : r \in ConvertFrontMatter(cfg, parts[2])}

\* the prefixes of the output an interrupted write can leave behind
PartialLens(out) == {0, Len(out) \div 2}

\* a converter that writes the opening delimiter as soon as it is called
ConvertOutcomesStreaming(c, content) ==
    LET rs == ConvertMarkdown(c, content) IN
      {[err |-> r.err, file |-> IF r.ok THEN r.val ELSE << Delim, NL >>,
        fault |-> FALSE] : r \in rs}
      \cup {[err |-> "read", file |-> << Delim, NL >>, fault |-> TRUE]}
      \cup {[err |-> "write", file |-> SubSeq(o[1].val, 1, o[2]), fault |-> TRUE] :
              o \in {x \in rs \X (0..Len(content) + Len(KeyOrder)) :
                       x[1].ok /\ x[2] \in PartialLens(x[1].val)}}

\* what ConvertMarkdown can do to an open, empty destination file: the error
\* it returns, the content it leaves in the file, and whether an I/O fault
\* (a failed read of the source, an interrupted write) was involved
ConvertOutcomes(c, content) ==
    LET rs == ConvertMarkdown(c, content) IN
      {[err |-> r.err, file |-> r.val, fault |-> FALSE] : r \in rs}
      \cup {[err |-> "read", file |-> << >>, fault |-> TRUE]}
      \cup {[err |-> "write", file |-> SubSeq(o[1].val, 1, o[2]), fault |-> TRUE] :
              o \in {x \in rs \X (0..Len(content) + Len(KeyOrder)) :
                       x[1].ok /\ x[2] \in PartialLens(x[1].val)}}

(***************************************************************************)
(* Paths.  A file name is a sequence of segments, the last one being its   *)
(* extension when it has one; a path is a sequence of names.               *)
(***************************************************************************)
\* strings.HasSuffix(name, ext)
HasSuffix(name, ext) == Len(name) > 0 /\ name[Len(name)] = ext

\* filepath.Rel(base, path) for a path the walk found under base
Rel(base, path) == SubSeq(path, Len(base) + 1, Len(path))

\* filepath.Join(dir, rel)
Join(dir, rel) == dir \o rel

\* filepath.Dir(path)
Dir(path) == SubSeq(path, 1, Len(path) - 1)

srcDir == << <<"src">> >>
dstDir == << <<"dst">> >>

(***************************************************************************)
(* The source tree, in the lexical order filepath.Walk visits it.  Two     *)
(* posts in different directories have the same file name.                 *)
(***************************************************************************)
Entry(rel, isDir) == [rel |-> rel, IsDir |-> isDir]

Entries ==
    << Entry(<< >>, TRUE),
       Entry(<< <<"a", ".md">> >>, FALSE),
       Entry(<< <<"empty", ".md">> >>, TRUE),
       Entry(<< <<"notes", ".txt">> >>, FALSE),
       Entry(<< <<"sub">> >>, TRUE),
       Entry(<< <<"sub">>, <<"b", ".md">> >>, FALSE),
       Entry(<< <<"sub">>, <<"deep">> >>, TRUE),
       Entry(<< <<"sub">>, <<"deep">>, <<"a", ".md">> >>, FALSE) >>

Idx == 1..Len(Entries)

\* the path the walk hands to its callback for entry i
PathOf(i) == srcDir \o Entries[i].rel

\* info.Name() of entry i (the root's name is the last name of srcDir)
NameOf(i) == LET p == PathOf(i) IN p[Len(p)]

\* the regular files of the tree named *.md
Posts == {i \in Idx : ~Entries[i].IsDir /\ HasSuffix(NameOf(i), ".md")}

\* a call that also mirrors every directory of the source tree
MkdirAllUpFront(dir) ==
    {SubSeq(dir, 1, n) : n \in 1..Len(dir)}
    \cup {dstDir \o Entries[i].rel : i \in {j \in Idx : Entries[j].IsDir}}

\* the directories os.MkdirAll(dir) makes sure exist: dir and its ancestors
MkdirAllDirs(dir) == {SubSeq(dir, 1, n) : n \in 1..Len(dir)}

(***************************************************************************)
(* Sample documents.                                                       *)
(***************************************************************************)
\* "---\ntitle: T\nupdated: U\npermalink: P\n---\n\nBody"
DocGood ==
    << Delim, NL, YField("title", "T"), YField("updated", "U"),
       YField("permalink", "P"), Delim, NL, NL, Text("Body") >>

\* an unmapped field, and a horizontal rule in the body
DocRule ==
    << Delim, NL, YField("author", "A"), YField("tags", "G"), Delim, NL,
       Text("Intro"), NL, Delim, NL, Text("More") >>

\* no front matter at all
DocNoDelim == << Text("# Invalid Post"), NL, Text("no front matter") >>

\* the empty file
DocEmpty == << >>

\* an opening delimiter that is never closed
DocOneDelim == << Delim, NL, YField("title", "T"), NL, Text("Body") >>

\* a front matter block that is not a YAML mapping
DocBadYaml == << Delim, NL, Text("just a sentence"), NL, Delim, NL, Text("Body") >>

\* text in front of the opening delimiter
DocPreamble ==
    << Text("draft"), NL, Delim, NL, YField("title", "T"), Delim, NL, Text("Body") >>

\* what a destination file left by an earlier run holds
DocOld == << Text("stale") >>

\* the content of every file of the tree, per sample tree
DocsOf(a, b, c) ==
    [i \in Idx |-> CASE i = 2 -> a [] i = 6 -> b [] i = 8 -> c [] OTHER -> DocNoDelim]

Trees ==
    { DocsOf(DocGood, DocRule, DocGood),
      DocsOf(DocNoDelim, DocGood, DocRule),
      DocsOf(DocGood, DocBadYaml, DocEmpty),
      DocsOf(DocOneDelim, DocNoDelim, DocGood) }

(***************************************************************************)
(* Configurations.                                                         *)
(***************************************************************************)
Config(src, tgt, n, dir) ==
    [SourceFormat |-> src, TargetFormat |-> tgt, FileExtension |-> ".md",
     MaxConcurrency |-> n, ConversionDirection |-> dir]

\* every limit with the formats and directions a run is meant for and with
\* a target format that has no codec; a source format that has no codec and
\* a direction that is none of the two, which act on a conversion alone,
\* with the limit of a sequential run; and the limit 0, which neither
\* Config nor the --max-concurrency flag rejects
Configs ==
    { Config(f[1], f[2], n, f[3]) :
        f \in { <<"yaml", "yaml", "hexo2hugo">>,
                <<"yaml", "toml", "hugo2hexo">>,
                <<"yaml", "json", "hexo2hugo">> },
        n \in 1..MaxLimit }
    \cup { Config("json", "yaml", 1, "hexo2hugo"),
           Config("yaml", "yaml", 1, "hexo2hogo"),
           Config("yaml", "yaml", 0, "hexo2hugo") }

(***************************************************************************)
(* State.                                                                  *)
(***************************************************************************)
VARIABLES
    cfg,               \* the Config of this run
    docs,              \* entry index -> content of the source file
    outcomes,          \* entry index -> what ConvertMarkdown can do with it
    pre,               \* the destination paths that held a file before the run
    dst,               \* the dstDir argument of this call of ConvertPosts
    bpc,               \* where ConvertPosts is: mkdir, walk, walked, wait, returned
    walkIdx,           \* the entry filepath.Walk visits next
    walkFailedAt,      \* the entry the enumeration first failed at, 0 if none
    walkErr,           \* the error filepath.Walk returned (TRUE: non-nil)
    result,            \* what ConvertPosts returned
    sem,               \* errgroup: tokens held in the limit semaphore
    wg,                \* errgroup: the wait group's counter
    ctxDone,           \* the group context is cancelled
    gErr,              \* errgroup: the first non-nil error a task returned
    pc,                \* entry index -> where its task is
    dstPath,           \* entry index -> the destination path of its task
    err,               \* entry index -> the error convertFile returned
    snap,              \* entry index -> the slice its append read
    mu,                \* the holder of the mutex, 0 when free
    conversionErrors,  \* the shared failure list
    dstFiles,          \* path -> content, for the files that exist under dst
    dstDirs,           \* the directories that exist under dst, and dst's ancestors
    faults,            \* the file I/O faults injected so far
    content,           \* a converter on its own: the document it is given
    cpc,               \* where that call of ConvertMarkdown is
    keyMap,            \* the field map of the FrontMatterConverter
    parts,             \* what strings.SplitN returned
    frontMatterMap,    \* the record the front matter was decoded to
    convertedMap,      \* the record the remapping loop built
    buf,               \* the encoded record
    written,           \* what was written to the io.Writer
    cerr,              \* the error ConvertMarkdown returned
    returns            \* what the calls made so far returned

vars ==
    << cfg, docs, outcomes, pre, dst, bpc, walkIdx, walkFailedAt, walkErr, result, sem, wg,
       ctxDone, gErr, pc, dstPath, err, snap, mu, conversionErrors, dstFiles,
       dstDirs, faults, content, cpc, keyMap, parts, frontMatterMap,
       convertedMap, buf, written, cerr, returns >>

batchVars == << bpc, walkIdx, walkFailedAt, walkErr, result >>
groupVars == << sem, wg, ctxDone, gErr >>
taskVars == << pc, dstPath, err, snap >>
listVars == << mu, conversionErrors >>
fsVars == << dstFiles, dstDirs >>
callVars == << parts, frontMatterMap, convertedMap, buf, written, cerr >>
convVars == << content, cpc, keyMap, callVars, returns >>
inputVars == << cfg, docs, outcomes, pre, dst, convVars >>

NoResult == [kind |-> "none", count |-> 0]

\* the destination paths at which an earlier run over this tree left a file;
\* a run starts on an empty destination or on that of an earlier run
EarlierOutputs == {dstDir \o Entries[i].rel : i \in Posts}

\* no call of ConvertMarkdown has got anywhere yet
NoCall ==
    /\ keyMap = NoRecord
    /\ parts = << >>
    /\ frontMatterMap = NoRecord
    /\ convertedMap = NoRecord
    /\ buf = << >>
    /\ written = << >>
    /\ cerr = "nil"
    /\ returns = << >>

\* ConvertPosts has been called and has done nothing yet
NotStarted ==
    /\ content = << >>
    /\ cpc = "none"
    /\ NoCall
    /\ bpc = "mkdir"
    /\ walkIdx = 1
    /\ walkFailedAt = 0
    /\ walkErr = FALSE
    /\ result = NoResult
    /\ sem = 0
    /\ wg = 0
    /\ ctxDone = FALSE
    /\ gErr = "nil"
    /\ pc = [i \in Idx |-> "idle"]
    /\ dstPath = [i \in Idx |-> << >>]
    /\ err = [i \in Idx |-> "nil"]
    /\ snap = [i \in Idx |-> << >>]
    /\ mu = 0
    /\ conversionErrors = << >>
    /\ faults = 0

Init ==
    /\ cfg \in Configs
    /\ docs \in Trees
    /\ outcomes = [i \in Idx |-> ConvertOutcomes(cfg, docs[i])]
    /\ pre \in {{}, EarlierOutputs}
    /\ dst = dstDir
    /\ dstFiles = [p \in pre |-> DocOld]
    /\ dstDirs = UNION {MkdirAllDirs(Dir(p)) : p \in pre}
    /\ NotStarted

(***************************************************************************)
(* The file system operations on the destination tree.                     *)
(***************************************************************************)
\* os.Create / a completed write: path holds data
WithFile(files, path, data) ==
    [p \in DOMAIN files \cup {path} |-> IF p = path THEN data ELSE files[p]]

\* os.Remove(path)
WithoutFile(files, path) == [p \in DOMAIN files \ {path} |-> files[p]]

Exists(path) == path \in DOMAIN dstFiles

CanFault == faults < MaxFaults

(***************************************************************************)
(* ConvertPosts: destination root, walk, wait, report.                     *)
(***************************************************************************)
\* os.MkdirAll(dstDir) succeeds
MkdirRoot ==
    /\ bpc = "mkdir"
    /\ dstDirs' = dstDirs \cup MkdirAllDirs(dst)
    /\ bpc' = "walk"
    /\ UNCHANGED << walkIdx, walkFailedAt, walkErr, result, groupVars, taskVars,
                    listVars, dstFiles, faults, inputVars >>

\* os.MkdirAll(dstDir) fails: the batch returns at once
MkdirRootFail ==
    /\ bpc = "mkdir"
    /\ bpc' = "returned"
    /\ result' = [kind |-> "destinit", count |-> 0]
    /\ UNCHANGED << walkIdx, walkFailedAt, walkErr, groupVars, taskVars,
                    listVars, fsVars, faults, inputVars >>

\* a filter that lets only the files directly under the source root go on
EligibleRootOnly(i) ==
    /\ ~Entries[i].IsDir /\ HasSuffix(NameOf(i), cfg.FileExtension)
    /\ Len(Entries[i].rel) = 1

\* a filter that goes by the name alone
EligibleByName(i) == HasSuffix(NameOf(i), cfg.FileExtension)

\* a filter that leaves out the files whose destination exists
EligibleIfAbsent(i) ==
    /\ ~Entries[i].IsDir /\ HasSuffix(NameOf(i), cfg.FileExtension)
    /\ (dstDir \o Entries[i].rel) \notin DOMAIN dstFiles

\* the walk callback's filter: only regular files with the extension go on
Eligible(i) ==
    ~Entries[i].IsDir /\ HasSuffix(NameOf(i), cfg.FileExtension)

\* a callback that swallows the enumeration error
CallbackErrSwallowed(e) == FALSE

\* what the walk callback returns when it is handed an enumeration error
CallbackErr(e) == e

\* a group without a limit
SemUnlimited == TRUE

\* g.Go with SetLimit(MaxConcurrency): blocks until a token fits the semaphore
SemAvailable == sem < cfg.MaxConcurrency

\* filepath.Base(path)
Base(path) == << path[Len(path)] >>

\* a destination path that keeps only the file name
DstPathFlat(path) == Join(dstDir, Base(path))

\* the destination path the callback computes for a source path
DstPathOf(path) == Join(dst, Rel(srcDir, path))

\* a walk that goes on wherever ConvertPosts is
WalkingAnyway == walkIdx \in Idx

\* filepath.Walk is running and has an entry to visit
Walking == bpc = "walk" /\ walkIdx \in Idx

\* the enumeration fails at the entry; the callback returns the error and
\* filepath.Walk stops with it
WalkFail ==
    /\ Walking
    /\ walkFailedAt' = IF walkFailedAt = 0 THEN walkIdx ELSE walkFailedAt
    /\ IF CallbackErr(TRUE)
       THEN walkErr' = TRUE /\ bpc' = "walked" /\ UNCHANGED walkIdx
       ELSE walkIdx' = walkIdx + 1 /\ UNCHANGED << walkErr, bpc >>
    /\ UNCHANGED << result, groupVars, taskVars, listVars, fsVars, faults,
                    inputVars >>

\* a directory, or a file without the extension: the callback returns nil
WalkSkip ==
    /\ Walking
    /\ ~Eligible(walkIdx)
    /\ walkIdx' = walkIdx + 1
    /\ UNCHANGED << bpc, walkFailedAt, walkErr, result, groupVars, taskVars,
                    listVars, fsVars, faults, inputVars >>

\* an eligible file: g.Go starts its task once the semaphore admits it
WalkDispatch ==
    /\ Walking
    /\ Eligible(walkIdx)
    /\ SemAvailable
    /\ sem' = sem + 1
    /\ wg' = wg + 1
    /\ pc' = [pc EXCEPT ![walkIdx] = "begin"]
    /\ dstPath' = [dstPath EXCEPT ![walkIdx] = DstPathOf(PathOf(walkIdx))]
    /\ walkIdx' = walkIdx + 1
    /\ UNCHANGED << bpc, walkFailedAt, walkErr, result, ctxDone, gErr, err,
                    snap, listVars, fsVars, faults, inputVars >>

\* every entry was visited: filepath.Walk returns nil
WalkEnd ==
    /\ bpc = "walk"
    /\ walkIdx > Len(Entries)
    /\ bpc' = "walked"
    /\ UNCHANGED << walkIdx, walkFailedAt, walkErr, result, groupVars, taskVars,
                    listVars, fsVars, faults, inputVars >>

\* if err != nil { return walking error }, else go on to g.Wait
AfterWalk ==
    /\ bpc = "walked"
    /\ IF walkErr
       THEN bpc' = "returned" /\ result' = [kind |-> "walk", count |-> 0]
       ELSE bpc' = "wait" /\ UNCHANGED result
    /\ UNCHANGED << walkIdx, walkFailedAt, walkErr, groupVars, taskVars,
                    listVars, fsVars, faults, inputVars >>

\* g.Wait returns once the wait group is at zero, cancelling the context;
\* then the failure list decides the result
Wait ==
    /\ bpc = "wait"
    /\ wg = 0
    /\ ctxDone' = TRUE
    /\ bpc' = "returned"
    /\ result' =
         IF gErr # "nil" THEN [kind |-> "group", count |-> 0]
         ELSE IF Len(conversionErrors) > 0
              THEN [kind |-> "aggregate", count |-> Len(conversionErrors)]
              ELSE [kind |-> "nil", count |-> 0]
    /\ UNCHANGED << walkIdx, walkFailedAt, walkErr, sem, wg, gErr, taskVars,
                    listVars, fsVars, faults, inputVars >>

(***************************************************************************)
(* One task: the closure handed to g.Go, and convertFile inside it.        *)
(***************************************************************************)
\* a closure that hands convertFile's error to the group
TaskReturnErr(e) == e

\* what the closure returns to the group after convertFile returned e
TaskReturn(e) == "nil"

\* a token that is never taken out of the semaphore
ReleasedNever(n) == n

\* errgroup's done(): the task's token leaves the semaphore
Released(n) == n - 1

\* an append that is not guarded by the mutex
MuFreeAlways == TRUE

\* the mutex can be taken
MuFree == mu = 0

\* a failure path that forgets os.Remove
RemovedNothing(files, path) == files

\* the files left after os.Remove(path) on a failed conversion
Removed(files, path) == WithoutFile(files, path)

\* the task's goroutine ends: errgroup records the first error and cancels
\* the context on it, releases the token and signals the wait group
Finish(ret) ==
    /\ sem' = Released(sem)
    /\ wg' = wg - 1
    /\ IF ret # "nil"
       THEN /\ gErr' = IF gErr = "nil" THEN ret ELSE gErr
            /\ ctxDone' = TRUE
       ELSE UNCHANGED << gErr, ctxDone >>

\* convertFile returned e before it created a destination file
FailEarly(i, e) ==
    /\ err' = [err EXCEPT ![i] = e]
    /\ pc' = [pc EXCEPT ![i] = "lock"]

\* convertFile up to os.Create: the context check, os.Open of the source,
\* os.MkdirAll of the destination's parent, os.Create of the destination
Begin(i) ==
    /\ pc[i] = "begin"
    /\ IF ctxDone
       THEN FailEarly(i, "cancelled") /\ UNCHANGED << fsVars, faults >>
       ELSE \/ /\ dstDirs' = dstDirs \cup MkdirAllDirs(Dir(dstPath[i]))
               /\ dstFiles' = WithFile(dstFiles, dstPath[i], << >>)
               /\ pc' = [pc EXCEPT ![i] = "convert"]
               /\ UNCHANGED << err, faults >>
            \/ /\ CanFault
               /\ faults' = faults + 1
               /\ \/ FailEarly(i, "open") /\ UNCHANGED fsVars
                  \/ FailEarly(i, "mkdir") /\ UNCHANGED fsVars
                  \/ /\ FailEarly(i, "create")
                     /\ dstDirs' = dstDirs \cup MkdirAllDirs(Dir(dstPath[i]))
                     /\ UNCHANGED dstFiles
    /\ UNCHANGED << batchVars, groupVars, dstPath, snap, listVars, inputVars >>

\* what ConvertMarkdown can do with the source of entry i as io.ReadAll
\* finds it: the source tree is apart from the tree under dst, unless dst is
\* the source root, and then the file read is the file os.Create has opened
OutcomesOf(i) ==
    IF dst = srcDir THEN ConvertOutcomes(cfg, dstFiles[PathOf(i)])
    ELSE outcomes[i]

\* mc.ConvertMarkdown(srcFile, dstFile): read all, split, transform, write;
\* on success the closure returns, on failure os.Remove comes next
Convert(i) ==
    /\ pc[i] = "convert"
    /\ \E o \in {x \in OutcomesOf(i) : x.fault => CanFault} :
         /\ dstFiles' = WithFile(dstFiles, dstPath[i], o.file)
         /\ faults' = IF o.fault THEN faults + 1 ELSE faults
         /\ err' = [err EXCEPT ![i] = IF o.err = "none" THEN "nil" ELSE o.err]
         /\ IF o.err = "none"
            THEN pc' = [pc EXCEPT ![i] = "done"] /\ Finish(TaskReturn("nil"))
            ELSE pc' = [pc EXCEPT ![i] = "remove"] /\ UNCHANGED groupVars
    /\ UNCHANGED << batchVars, dstPath, snap, listVars, dstDirs, inputVars >>

\* os.Remove(dstPath) after a failed ConvertMarkdown; convertFile returns
Remove(i) ==
    /\ pc[i] = "remove"
    /\ dstFiles' = Removed(dstFiles, dstPath[i])
    /\ pc' = [pc EXCEPT ![i] = "lock"]
    /\ UNCHANGED << batchVars, groupVars, dstPath, err, snap, listVars,
                    dstDirs, faults, inputVars >>

\* mu.Lock(), and append's read of the slice
Lock(i) ==
    /\ pc[i] = "lock"
    /\ MuFree
    /\ mu' = i
    /\ snap' = [snap EXCEPT ![i] = conversionErrors]
    /\ pc' = [pc EXCEPT ![i] = "append"]
    /\ UNCHANGED << batchVars, groupVars, dstPath, err, conversionErrors,
                    fsVars, faults, inputVars >>

\* append's write of the slice, mu.Unlock(), and the closure's return
AppendError(i) ==
    /\ pc[i] = "append"
    /\ conversionErrors' =
         Append(snap[i], [SourceFile |-> PathOf(i), Err |-> err[i]])
    /\ mu' = 0
    /\ snap' = [snap EXCEPT ![i] = << >>]
    /\ pc' = [pc EXCEPT ![i] = "done"]
    /\ Finish(TaskReturn(err[i]))
    /\ UNCHANGED << batchVars, dstPath, err, fsVars, faults, inputVars >>

Task(i) == Begin(i) \/ Convert(i) \/ Remove(i) \/ Lock(i) \/ AppendError(i)

Batch ==
    \/ MkdirRoot \/ MkdirRootFail \/ WalkFail \/ WalkSkip \/ WalkDispatch
    \/ WalkEnd \/ AfterWalk \/ Wait

Next == Batch \/ \E i \in Idx : Task(i)

Spec == Init /\ [][Next]_vars

\* the steps of ConvertPosts that do not depend on the environment failing
Progress ==
    MkdirRoot \/ WalkSkip \/ WalkDispatch \/ WalkEnd \/ AfterWalk \/ Wait

\* the Go scheduler runs every runnable goroutine, and file I/O completes;
\* no failure of the environment is ever forced
Fairness == WF_vars(Progress) /\ \A i \in Idx : WF_vars(Task(i))

\* the runs that start on an empty destination with the default formats
\* and direction and a positive limit: which steps a run takes depends on a conversion only
\* through its success or failure, and the sample trees hold documents of
\* both kinds
FairInit ==
    /\ Init
    /\ pre = {}
    /\ cfg.SourceFormat = "yaml" /\ cfg.TargetFormat = "yaml"
    /\ cfg.ConversionDirection = "hexo2hugo"
    /\ cfg.MaxConcurrency >= 1

FairSpec == FairInit /\ [][Next]_vars /\ Fairness

(***************************************************************************)
(* One MarkdownConverter on its own: NewMarkdownConverter, then            *)
(* ConvertMarkdown on one document, statement by statement, and again on   *)
(* the same document.                                                      *)
(***************************************************************************)
NewDefaultConfig == Config("yaml", "yaml", 4, "hexo2hugo")

\* the configurations a caller can build: each format and the direction is
\* a free string
ConvConfigs ==
    { [NewDefaultConfig EXCEPT !.SourceFormat = s, !.TargetFormat = t,
                               !.ConversionDirection = d] :
        s \in {"yaml", "toml", "json"}, t \in {"yaml", "toml", "json"},
        d \in {"hexo2hugo", "hugo2hexo", "hexo2hogo"} }

\* the field names of the sample records: mapped ones of either dialect,
\* and one no map knows
FieldPool == {"author", "lastmod", "permalink", "slug", "title", "updated"}

\* a value per field name, different for different names
SampleValue(k) ==
    CASE k = "author" -> "A" [] k = "lastmod" -> "L" [] k = "permalink" -> "P"
      [] k = "slug" -> "S" [] k = "title" -> "T" [] k = "updated" -> "U"

SampleRecords ==
    { [k \in ks |-> SampleValue(k)] :
        ks \in {x \in SUBSET FieldPool : Cardinality(x) <= MaxFields} }

\* what follows the second delimiter: a blank line and text, text with a
\* horizontal rule in it, or nothing
SampleBodies ==
    { << NL, NL, Text("Body") >>,
      << NL, Text("Intro"), NL, Delim, NL, Text("More") >>,
      << >> }

\* "---\n" block "---" body
FrontMatterDoc(kind, rec, body) ==
    << Delim, NL >> \o EncodeFields(rec, kind) \o << Delim >> \o body

SampleContents ==
    { FrontMatterDoc(kind, rec, body) :
        kind \in {"yaml", "toml"}, rec \in SampleRecords, body \in SampleBodies }
    \cup {DocNoDelim, DocEmpty, DocOneDelim, DocBadYaml, DocPreamble}

\* what a converter on its own leaves alone
runVars ==
    << cfg, docs, outcomes, pre, dst, batchVars, groupVars, taskVars, listVars,
       fsVars, faults >>

ConvInit ==
    /\ cfg \in ConvConfigs
    /\ content \in SampleContents
    /\ cpc = "new"
    /\ NoCall
    /\ docs = [i \in Idx |-> DocEmpty]
    /\ outcomes = [i \in Idx |-> {}]
    /\ pre = {}
    /\ dst = dstDir
    /\ bpc = "mkdir"
    /\ walkIdx = 1
    /\ walkFailedAt = 0
    /\ walkErr = FALSE
    /\ result = NoResult
    /\ sem = 0
    /\ wg = 0
    /\ ctxDone = FALSE
    /\ gErr = "nil"
    /\ pc = [i \in Idx |-> "idle"]
    /\ dstPath = [i \in Idx |-> << >>]
    /\ err = [i \in Idx |-> "nil"]
    /\ snap = [i \in Idx |-> << >>]
    /\ mu = 0
    /\ conversionErrors = << >>
    /\ dstFiles = [p \in {} |-> DocOld]
    /\ dstDirs = {}
    /\ faults = 0

\* NewMarkdownConverter(cfg): the converter gets its field map
NewMarkdownConverter ==
    /\ cpc = "new"
    /\ keyMap' = KeyMapOf(cfg.ConversionDirection)
    /\ cpc' = "split"
    /\ UNCHANGED << content, callVars, returns, runVars >>

\* ConvertMarkdown returns e, having written w
MdReturn(e, w) ==
    /\ cerr' = e
    /\ written' = w
    /\ cpc' = "returned"
    /\ returns' = Append(returns, [err |-> e, written |-> w])

\* io.ReadAll, strings.SplitN and the test of the number of parts
MdSplit ==
    /\ cpc = "split"
    /\ parts' = SplitN(content, 3)
    /\ IF Len(parts') < 3
       THEN MdReturn("split", << >>)
       ELSE cpc' = "unmarshal" /\ UNCHANGED << written, cerr, returns >>
    /\ UNCHANGED << content, keyMap, frontMatterMap, convertedMap, buf, runVars >>

\* ConvertFrontMatter: unmarshalFrontMatter of the middle part
FmUnmarshal ==
    /\ cpc = "unmarshal"
    /\ LET dec == unmarshalFrontMatter(cfg.SourceFormat, parts[2]) IN
         IF dec.ok
         THEN /\ frontMatterMap' = dec.val
              /\ cpc' = "remap"
              /\ UNCHANGED << written, cerr, returns >>
         ELSE MdReturn(dec.err, << >>) /\ UNCHANGED frontMatterMap
    /\ UNCHANGED << content, keyMap, parts, convertedMap, buf, runVars >>

\* ConvertFrontMatter: the loop that builds convertedMap
FmRemap ==
    /\ cpc = "remap"
    /\ convertedMap' \in ConvertedMaps(frontMatterMap, keyMap)
    /\ cpc' = "marshal"
    /\ UNCHANGED << content, keyMap, parts, frontMatterMap, buf, written, cerr,
                    returns, runVars >>

\* ConvertFrontMatter: marshalFrontMatter of convertedMap
FmMarshal ==
    /\ cpc = "marshal"
    /\ LET enc == marshalFrontMatter(cfg.TargetFormat, convertedMap) IN
         IF enc.ok
         THEN /\ buf' = enc.val
              /\ cpc' = "write"
              /\ UNCHANGED << written, cerr, returns >>
         ELSE MdReturn(enc.err, << >>) /\ UNCHANGED buf
    /\ UNCHANGED << content, keyMap, parts, frontMatterMap, convertedMap, runVars >>

\* a write that puts the parts together again as they were split: what
\* preceded the first delimiter, the converted block, the body
MdWriteRejoining ==
    /\ cpc = "write"
    /\ MdReturn("nil", parts[1] \o Wrapped(buf) \o parts[3])
    /\ UNCHANGED << content, keyMap, parts, frontMatterMap, convertedMap, buf,
                    runVars >>

\* Sprintf("---\n%s---", buf) and Fprintf(w, "%s\n\n%s", it, parts[2])
MdWrite ==
    /\ cpc = "write"
    /\ MdReturn("nil", Wrapped(buf) \o << NL, NL >> \o parts[3])
    /\ UNCHANGED << content, keyMap, parts, frontMatterMap, convertedMap, buf,
                    runVars >>

\* the same converter is called on the same document once more
MdAgain ==
    /\ cpc = "returned"
    /\ Len(returns) < MaxRuns
    /\ cpc' = "split"
    /\ parts' = << >>
    /\ frontMatterMap' = NoRecord
    /\ convertedMap' = NoRecord
    /\ buf' = << >>
    /\ written' = << >>
    /\ cerr' = "nil"
    /\ UNCHANGED << content, keyMap, returns, runVars >>

ConvNext ==
    \/ NewMarkdownConverter \/ MdSplit \/ FmUnmarshal \/ FmRemap \/ FmMarshal
    \/ MdWrite \/ MdAgain

ConvSpec == ConvInit /\ [][ConvNext]_vars

(***************************************************************************)
(* Properties.                                                             *)
(***************************************************************************)
\* the tasks that are inside convertFile
InConvertFile == {i \in Idx : pc[i] \in {"begin", "convert", "remove"}}

\* the tasks that were dispatched and have not finished
Running == {i \in Idx : pc[i] \notin {"idle", "done"}}

\* the tasks whose convertFile returned an error
Failed == {i \in Idx : err[i] # "nil"}

\* where the converted file of entry i belongs
Mirror(i) == dstDir \o Entries[i].rel

\* the destination root was created and the walk succeeded, and the batch reported
Reported == bpc = "returned" /\ result.kind \notin {"destinit", "walk"}

\* C1: at every moment at most MaxConcurrency tasks are inside convertFile,
\* whatever directories their files are in.
C1_ConcurrencyBound == Cardinality(InConvertFile) <= cfg.MaxConcurrency

\* C1 witness: the limit is 2, a file of the root and a file of a
\* subdirectory are both inside convertFile, and the walk has reached a
\* third eligible file that has to wait.
C1_Witness ==
    /\ cfg.MaxConcurrency = 2
    /\ InConvertFile = {2, 6}
    /\ Walking /\ Eligible(walkIdx)

\* C2: when ConvertPosts has returned, no task it dispatched is still running.
C2_ReturnedAfterAllTasks == bpc = "returned" => Running = {}

DelimCount(doc) == Cardinality({n \in 1..Len(doc) : doc[n] = Delim})

\* a document without a delimiter-bounded metadata block
Malformed(doc) == DelimCount(doc) < 2

\* a document whose conversion succeeds under the run's configuration
WellFormed(doc) ==
    DelimCount(doc) >= 2 /\ \A r \in ConvertMarkdown(cfg, doc) : r.ok

\* the errors that come from file I/O and not from the document
IOErrors == {"open", "mkdir", "create", "read", "write"}

\* the errors convertFile returns before it has created the destination file
EarlyErrors == {"cancelled", "open", "mkdir", "create"}

\* the batch is over: ConvertPosts returned and no task is running
Over == bpc = "returned" /\ Running = {}

\* C4: when the batch has reported over a tree whose N posts are K malformed
\* ones and N-K well-formed ones, and no I/O fault occurred, the result
\* counts exactly K failures, the destination holds exactly the N-K files of
\* the well-formed posts, and none for a malformed post.
C4_PartialFailureIsolation ==
    LET bad == {i \in Posts : Malformed(docs[i])}
        good == {i \in Posts : WellFormed(docs[i])}
    IN  (Reported /\ faults = 0 /\ bad \cup good = Posts) =>
          /\ result.count = Cardinality(bad)
          /\ result.kind = IF bad = {} THEN "nil" ELSE "aggregate"
          /\ DOMAIN dstFiles = {Mirror(i) : i \in good}
          /\ Cardinality(DOMAIN dstFiles) = Cardinality(Posts) - Cardinality(bad)

\* C4 witness: a batch over three posts of which two are malformed has
\* reported two failures and left the one converted file.
C4_Witness ==
    /\ Reported /\ faults = 0
    /\ {i \in Posts : Malformed(docs[i])} = {2, 6}
    /\ WellFormed(docs[8])
    /\ result = [kind |-> "aggregate", count |-> 2]
    /\ DOMAIN dstFiles = {Mirror(8)}

\* C5: a failure of one file never cancels a task and never makes the batch
\* return a fatal error; when the batch has reported, every post was
\* attempted, and every post that is well-formed and met no I/O fault was
\* converted to its destination.
C5_FailureContained ==
    /\ \A i \in Idx : err[i] # "cancelled"
    /\ result.kind # "group"
    /\ result.kind = "walk" => walkFailedAt # 0
    /\ Reported =>
         \A i \in Posts :
           /\ pc[i] = "done"
           /\ (WellFormed(docs[i]) /\ err[i] \notin IOErrors) =>
                /\ err[i] = "nil"
                /\ Exists(Mirror(i))
                /\ \E r \in ConvertMarkdown(cfg, docs[i]) : dstFiles[Mirror(i)] = r.val

\* C5 witness: the batch has reported, the first post failed on an
\* interrupted write, and both later posts were converted.
C5_Witness ==
    /\ Reported
    /\ err[2] = "write"
    /\ err[6] = "nil" /\ Exists(Mirror(6))
    /\ err[8] = "nil" /\ Exists(Mirror(8))

\* C6: when the batch has reported, it returned nil exactly if no task
\* failed, and otherwise the aggregate error counting the failed tasks.
C6_AggregateResult ==
    Reported =>
      /\ result.kind = "nil" <=> Failed = {}
      /\ Failed # {} => result = [kind |-> "aggregate", count |-> Cardinality(Failed)]

\* C6 witness: the batch returned "encountered 2 errors during conversion".
C6_Witness ==
    /\ Reported
    /\ Cardinality(Failed) = 2
    /\ result = [kind |-> "aggregate", count |-> 2]

\* C7: under fair scheduling ConvertPosts eventually returns, and from some
\* moment on no dispatched task is unfinished.
C7_Termination == <>[](bpc = "returned" /\ Running = {})

\* C7 witness: with a limit of one, all three posts were dispatched and are
\* done, and ConvertPosts has returned.
C7_Witness ==
    /\ cfg.MaxConcurrency = 1
    /\ bpc = "returned"
    /\ \A i \in Posts : pc[i] = "done"

\* C8: once convertFile has returned an error from the conversion or from
\* the write, no file is left at the task's destination path.
C8_SafeWrite ==
    \A i \in Idx :
      (pc[i] \in {"lock", "append", "done"} /\ err[i] \notin EarlyErrors \cup {"nil"})
        => ~Exists(dstPath[i])

\* C8 witness: a task whose write was interrupted is done and its
\* destination path holds no file.
C8_Witness ==
    \E i \in Idx : pc[i] = "done" /\ err[i] = "write" /\ ~Exists(dstPath[i])

\* C9 as stated: when the batch is over, no file exists at the destination
\* path of any failed task, even where one existed before the run.
C9_FailedAbsent ==
    Over => \A i \in Failed : ~Exists(Mirror(i))

\* C9 amended: when the batch is over, the destination path of a task that
\* failed in the conversion or the write holds no file; the destination path
\* of a task that failed before it created its file holds a file only if one
\* was there before the run, and then with its old content.
C9_FailedAbsentOrUntouched ==
    Over =>
      \A i \in Failed :
        IF err[i] \in EarlyErrors
        THEN /\ Exists(Mirror(i)) <=> Mirror(i) \in pre
             /\ Exists(Mirror(i)) => dstFiles[Mirror(i)] = DocOld
        ELSE ~Exists(Mirror(i))

\* C9 witness: the batch is over with one task that could not open its
\* source, whose stale destination file is still there, and one task that
\* failed in the conversion, whose stale destination file is gone.
C9_Witness ==
    /\ Over
    /\ \E i \in Failed : err[i] = "open" /\ Exists(Mirror(i))
    /\ \E i \in Failed : err[i] \notin EarlyErrors /\ Mirror(i) \in pre /\ ~Exists(Mirror(i))

\* C10: a post at srcDir/r that converted successfully has its converted
\* document at dstDir/r, every directory from dstDir down to that file
\* exists, and the destination holds no file anywhere but at the mirrored
\* paths of the posts.
C10_MirroredPaths ==
    /\ \A i \in Idx :
         (pc[i] = "done" /\ err[i] = "nil") =>
           /\ Exists(Mirror(i))
           /\ \E r \in ConvertMarkdown(cfg, docs[i]) : dstFiles[Mirror(i)] = r.val
           /\ \A n \in 1..(Len(Mirror(i)) - 1) : SubSeq(Mirror(i), 1, n) \in dstDirs
    /\ \A p \in DOMAIN dstFiles : \E i \in Posts : p = Mirror(i)

\* C10 witness: starting from an empty destination, the post two
\* directories down was converted to the same relative path.
C10_Witness ==
    /\ pre = {}
    /\ pc[8] = "done" /\ err[8] = "nil"
    /\ DOMAIN dstFiles = {dstDir \o << <<"sub">>, <<"deep">>, <<"a", ".md">> >>}
    /\ dstDir \o << <<"sub">>, <<"deep">> >> \in dstDirs

\* C11: two distinct tasks of one batch run never have the same destination
\* path, and every step that creates, writes or removes a destination file
\* does so at the destination path of exactly one dispatched task.
C11_DistinctDestinations ==
    /\ [](\A i, j \in Idx :
            (i # j /\ pc[i] # "idle" /\ pc[j] # "idle") => dstPath[i] # dstPath[j])
    /\ [][\A p \in DOMAIN dstFiles \cup DOMAIN dstFiles' :
            (\/ (p \in DOMAIN dstFiles) # (p \in DOMAIN dstFiles')
             \/ (p \in DOMAIN dstFiles /\ dstFiles[p] # dstFiles'[p]))
              => Cardinality({i \in Idx : pc[i] # "idle" /\ dstPath[i] = p}) = 1]_vars

\* C11 witness: the two posts named a.md, one in the root and one two
\* directories down, are converted at the same time, each into its own
\* open destination file.
C11_Witness ==
    /\ NameOf(2) = NameOf(8)
    /\ pc[2] = "convert" /\ pc[8] = "convert"
    /\ Exists(dstPath[2]) /\ Exists(dstPath[8])
    /\ dstPath[2] # dstPath[8]

\* C17: when the destination root could not be created, ConvertPosts has
\* returned the destination-init error and nothing else has happened: the
\* walk has visited no entry, no task was dispatched, the failure list is
\* empty, and the destination tree is as it was before the run.
C17_DestInitAborts ==
    result.kind = "destinit" =>
      /\ bpc = "returned"
      /\ walkIdx = 1 /\ walkFailedAt = 0
      /\ \A i \in Idx : pc[i] = "idle"
      /\ wg = 0 /\ sem = 0
      /\ conversionErrors = << >>
      /\ dstFiles = [p \in pre |-> DocOld]
      /\ dstDirs = UNION {MkdirAllDirs(Dir(p)) : p \in pre}

\* C17 witness: over a tree with three posts, ConvertPosts has returned the
\* destination-init error.
C17_Witness ==
    /\ bpc = "returned"
    /\ result = [kind |-> "destinit", count |-> 0]
    /\ Cardinality(Posts) = 3


RECURSIVE SequentialRun(_, _, _, _, _)
\* the batch run one file after the other in walk order, with no fault: the
\* destination files and the number of failures after the entries from i on
SequentialRun(c, d, i, files, failures) ==
    IF i > Len(Entries) THEN [files |-> files, failures |-> failures]
    ELSE IF i \notin Posts THEN SequentialRun(c, d, i + 1, files, failures)
    ELSE LET r == CHOOSE x \in ConvertMarkdown(c, d[i]) : TRUE IN
           IF r.ok
           THEN SequentialRun(c, d, i + 1, WithFile(files, Mirror(i), r.val), failures)
           ELSE SequentialRun(c, d, i + 1, WithoutFile(files, Mirror(i)), failures + 1)

\* what ConvertPosts returns after a run with that many failures
ResultOf(failures) ==
    IF failures > 0 THEN [kind |-> "aggregate", count |-> failures]
    ELSE [kind |-> "nil", count |-> 0]

C13_BodyPreserved ==
    (cpc = "returned" /\ cerr = "nil") =>
      SplitN(written, 3)[3] = SplitN(content, 3)[3]

\* the file of the failure list's entries that are about entry i
FailuresOf(i) ==
    {n \in 1..Len(conversionErrors) : conversionErrors[n].SourceFile = PathOf(i)}

\* C14: a post with fewer than two delimiters fails in the split whatever
\* the formats are, so before any decoding is tried; once its task is done
\* after reading it, the error is the malformed-document one, the failure
\* list holds exactly one entry for it, and no file is at its destination.
C14_StructuralRejection ==
    \A i \in Posts :
      Malformed(docs[i]) =>
        /\ \A o \in outcomes[i] : ~o.fault => (o.err = "split" /\ o.file = << >>)
        /\ pc[i] = "done" => err[i] \in IOErrors \cup {"split"}
        /\ (pc[i] = "done" /\ err[i] \notin IOErrors) =>
             /\ Cardinality(FailuresOf(i)) = 1
             /\ \A n \in FailuresOf(i) : conversionErrors[n].Err = "split"
             /\ ~Exists(Mirror(i))
        /\ (Reported /\ err[i] \notin IOErrors) =>
             /\ result.kind = "aggregate" /\ result.count >= 1
             /\ ~Exists(Mirror(i))

\* C14 witness: under a source format that has no codec the batch has
\* reported; the empty file, whose destination held a file before the run,
\* failed in the split, is once in the failure list and has left no file.
C14_Witness ==
    /\ Reported
    /\ cfg.SourceFormat = "json"
    /\ \E i \in Posts :
         /\ docs[i] = DocEmpty /\ err[i] = "split"
         /\ Mirror(i) \in pre /\ ~Exists(Mirror(i))
         /\ Cardinality(FailuresOf(i)) = 1

\* C15: once the converter has its field map, that map and the map of the
\* other direction undo each other on every field name either of them
\* holds, and the keys of each are exactly the values of the other.
C15_FieldNameRoundTrip ==
    (cpc # "new" /\ cfg.ConversionDirection \in {"hexo2hugo", "hugo2hexo"}) =>
      LET back == KeyMapOf(IF cfg.ConversionDirection = "hexo2hugo"
                           THEN "hugo2hexo" ELSE "hexo2hugo")
      IN  /\ \A f \in DOMAIN keyMap :
               keyMap[f] \in DOMAIN back /\ back[keyMap[f]] = f
          /\ \A h \in DOMAIN back :
               back[h] \in DOMAIN keyMap /\ keyMap[back[h]] = h
          /\ DOMAIN keyMap = {back[h] : h \in DOMAIN back}
          /\ DOMAIN back = {keyMap[f] : f \in DOMAIN keyMap}

\* C15 witness: a converter built for hugo2hexo has turned slug and lastmod
\* back into permalink and updated.
C15_Witness ==
    /\ cpc = "returned" /\ cerr = "nil"
    /\ cfg.ConversionDirection = "hugo2hexo"
    /\ frontMatterMap = [k \in {"slug", "lastmod"} |-> SampleValue(k)]
    /\ convertedMap =
         [k \in {"permalink", "updated"} |->
            IF k = "permalink" THEN SampleValue("slug") ELSE SampleValue("lastmod")]

\* the remapping loop has built convertedMap in this call
Remapped == cpc \in {"marshal", "write"} \/ (cpc = "returned" /\ cerr = "nil")

\* C16 as stated: every field that is not a key of the field map is in the
\* transformed record under its own name with its value, and every field
\* that is a key is there under the mapped name with its value.
C16_PassThrough ==
    Remapped =>
      \A k \in DOMAIN frontMatterMap :
        IF k \in DOMAIN keyMap
        THEN /\ keyMap[k] \in DOMAIN convertedMap
             /\ convertedMap[keyMap[k]] = frontMatterMap[k]
        ELSE /\ k \in DOMAIN convertedMap
             /\ convertedMap[k] = frontMatterMap[k]

\* C16 amended: the transformed record holds exactly the names the fields
\* are stored under (the mapped name for a key of the map, the own name
\* otherwise); a field that is alone in being stored under its name is
\* there with its value, and in the encoded output when the call succeeded;
\* a name several fields are stored under holds the value of one of them.
C16_PassThroughUnlessCollision ==
    Remapped =>
      LET target(k) == IF k \in DOMAIN keyMap THEN keyMap[k] ELSE k
          alone(k) == \A k2 \in DOMAIN frontMatterMap : target(k2) = target(k) => k2 = k
      IN  /\ DOMAIN convertedMap = {target(k) : k \in DOMAIN frontMatterMap}
          /\ \A k \in DOMAIN frontMatterMap :
               alone(k) =>
                 /\ convertedMap[target(k)] = frontMatterMap[k]
                 /\ cpc = "returned" =>
                      \E n \in 1..Len(written) :
                        written[n] = Tok(cfg.TargetFormat, target(k), frontMatterMap[k])
          /\ \A t \in DOMAIN convertedMap :
               \E k \in DOMAIN frontMatterMap :
                 target(k) = t /\ convertedMap[t] = frontMatterMap[k]

\* C16 witness: under hexo2hugo a record with author, which the map does
\* not hold, and permalink, which it maps to slug, was converted.
C16_Witness ==
    /\ cpc = "returned" /\ cerr = "nil"
    /\ cfg.ConversionDirection = "hexo2hugo"
    /\ frontMatterMap = [k \in {"author", "permalink"} |-> SampleValue(k)]
    /\ convertedMap =
         [k \in {"author", "slug"} |->
            IF k = "author" THEN SampleValue("author") ELSE SampleValue("permalink")]

\* the format names that have a codec
Registered == {"yaml", "toml"}

\* C18: under a source or target format that has no codec, no task ever
\* succeeds and no task is cancelled; a task that read a document with two
\* delimiters, and decoded it if the source format has a codec, fails with
\* the unsupported-format error, which is in the failure list; and the
\* batch reports the aggregate error over all posts, never a fatal one.
C18_UnsupportedFormatRejected ==
    (cfg.SourceFormat \notin Registered \/ cfg.TargetFormat \notin Registered) =>
      /\ \A i \in Idx :
           /\ err[i] # "cancelled"
           /\ pc[i] = "done" =>
                /\ err[i] # "nil"
                /\ \E n \in FailuresOf(i) : conversionErrors[n].Err = err[i]
                /\ (/\ err[i] \notin IOErrors
                    /\ ~Malformed(docs[i])
                    /\ \/ cfg.SourceFormat \notin Registered
                       \/ DecodeAs(SplitN(docs[i], 3)[2], cfg.SourceFormat).ok)
                     => err[i] = "unsupported"
      /\ result.kind # "group"
      /\ Reported =>
           /\ result = [kind |-> "aggregate", count |-> Cardinality(Posts)]
           /\ \A i \in Posts : err[i] \notin EarlyErrors => ~Exists(Mirror(i))

\* C18 witness: under the source format "json" the batch has reported three
\* failures, one of them a malformed document and one a document rejected
\* for the format.
C18_Witness ==
    /\ cfg.SourceFormat = "json"
    /\ Reported
    /\ result = [kind |-> "aggregate", count |-> 3]
    /\ \E i, j \in Posts : err[i] = "unsupported" /\ err[j] = "split"

\* C19: under a direction that is neither "hexo2hugo" nor "hugo2hexo" no
\* file is converted, and the batch does not return nil.
C19_DirectionValidated ==
    cfg.ConversionDirection \notin {"hexo2hugo", "hugo2hexo"} =>
      /\ \A i \in Idx : pc[i] = "done" => err[i] # "nil"
      /\ bpc = "returned" => result.kind # "nil"

\* C20: the calls of one converter on one document all return the same
\* error and write the same output.
C20_Deterministic ==
    \A m, n \in 1..Len(returns) : returns[m] = returns[n]


\* C21: what ConvertPosts returns is nil, the destination-init error, the
\* walk error, or the aggregate error with a count of at least one, which is
\* the length of the failure list; the walk error is returned exactly when
\* the enumeration failed, the destination-init error only before anything
\* was dispatched, and neither carries a count; failed files alone give the
\* aggregate error.
C21_ResultKinds ==
    /\ result.kind \in {"none", "nil", "destinit", "walk", "aggregate"}
    /\ bpc = "returned" <=> result.kind # "none"
    /\ result.kind = "aggregate" =>
         /\ result.count >= 1
         /\ result.count = Len(conversionErrors)
         /\ walkFailedAt = 0
    /\ result.kind # "aggregate" => result.count = 0
    /\ result.kind = "walk" <=> (bpc = "returned" /\ walkFailedAt # 0)
    /\ result.kind = "destinit" => (walkIdx = 1 /\ Failed = {})
    /\ result.kind = "nil" => (Failed = {} /\ walkFailedAt = 0)
    /\ (bpc = "returned" /\ Failed # {} /\ walkFailedAt = 0) =>
         result.kind = "aggregate"

\* C21 witness: a file had failed and was in the failure list when the
\* enumeration failed; ConvertPosts returned the walk error, without a count.
C21_Witness ==
    /\ result = [kind |-> "walk", count |-> 0]
    /\ Len(conversionErrors) >= 1

\* C22: every post the walk has passed has a task, and when the batch has
\* reported every post's task is done; a task starts only when the walk is
\* at its entry, which the walk then leaves, it enters convertFile from
\* nowhere but its dispatch, and once done it takes no further step.
C22_OneTaskPerFile ==
    /\ [](/\ \A i \in Posts : walkIdx > i => pc[i] # "idle"
          /\ Reported => \A i \in Posts : pc[i] = "done")
    /\ [][\A i \in Idx :
            pc'[i] # pc[i] =>
              /\ pc[i] # "done"
              /\ pc'[i] # "idle"
              /\ pc'[i] = "begin" <=> pc[i] = "idle"
              /\ pc[i] = "idle" => (walkIdx = i /\ walkIdx' = i + 1)]_vars

\* C22 witness: with a limit of two the batch returned nil and each of the
\* three posts has its task done and its converted file.
C22_Witness ==
    /\ cfg.MaxConcurrency = 2
    /\ Reported /\ result.kind = "nil"
    /\ \A i \in Posts : pc[i] = "done"
    /\ DOMAIN dstFiles = {Mirror(i) : i \in Posts}

\* C23: a task that is done has one entry in the failure list if it failed,
\* with its source path and its error, and none if it succeeded; a task that
\* is not done has none; and when no task is running the list is as long as
\* there are failed tasks.
C23_FailureList ==
    /\ \A i \in Idx :
         IF pc[i] = "done"
         THEN /\ Cardinality(FailuresOf(i)) = IF err[i] = "nil" THEN 0 ELSE 1
              /\ \A n \in FailuresOf(i) : conversionErrors[n].Err = err[i]
         ELSE FailuresOf(i) = {}
    /\ Running = {} => Len(conversionErrors) = Cardinality(Failed)

\* C23 witness: with a limit of two, the post visited last failed in the
\* split and was appended before the post visited second, which failed in
\* the decoder; the first post succeeded and has no entry.
C23_Witness ==
    /\ cfg.MaxConcurrency = 2
    /\ Over
    /\ conversionErrors =
         << [SourceFile |-> PathOf(8), Err |-> "split"],
            [SourceFile |-> PathOf(6), Err |-> "decode"] >>
    /\ err[2] = "nil"


(***************************************************************************)
(* A second run: ConvertPosts is called on the destination a first run     *)
(* over the same tree with the same configuration has left.                *)
(***************************************************************************)
\* the files a first run on an empty destination leaves when no I/O fails
FirstRun(c, d) == SequentialRun(c, d, 1, [p \in {} |-> DocOld], 0).files

\* the directories it leaves: the root and the parents of every post's
\* destination, which each task makes before it converts
FirstRunDirs ==
    MkdirAllDirs(dstDir) \cup UNION {MkdirAllDirs(Dir(Mirror(i))) : i \in Posts}

RerunInit ==
    /\ cfg \in {c \in Configs : c.SourceFormat \in Registered
                                /\ c.TargetFormat \in Registered}
    /\ docs \in Trees
    /\ outcomes = [i \in Idx |-> ConvertOutcomes(cfg, docs[i])]
    /\ dstFiles = FirstRun(cfg, docs)
    /\ pre = DOMAIN dstFiles
    /\ dst = dstDir
    /\ dstDirs = FirstRunDirs
    /\ NotStarted

RerunSpec == RerunInit /\ [][Next]_vars

C25_OnlyPostsScheduled ==
    /\ \A i \in Idx \ Posts :
         /\ pc[i] = "idle" /\ dstPath[i] = << >> /\ err[i] = "nil"
         /\ FailuresOf(i) = {}
         /\ ~Exists(Mirror(i))
    /\ \A n \in 1..Len(conversionErrors) :
         \E i \in Posts : conversionErrors[n].SourceFile = PathOf(i)
    /\ \A p \in DOMAIN dstFiles : \E i \in Posts : p = Mirror(i)
    /\ result.count <= Cardinality(Posts)

\* C25 witness: starting from an empty destination the batch returned nil
\* with three files converted; the directory named empty.md and the file
\* notes.txt were visited and have no task.
C25_Witness ==
    /\ pre = {}
    /\ Reported /\ result.kind = "nil"
    /\ Entries[3].IsDir /\ HasSuffix(NameOf(3), cfg.FileExtension) /\ pc[3] = "idle"
    /\ ~Entries[4].IsDir /\ ~HasSuffix(NameOf(4), cfg.FileExtension) /\ pc[4] = "idle"
    /\ Cardinality(DOMAIN dstFiles) = 3

\* the tasks that failed at the source open, in the split or in the transformation
FailedBeforeWrite ==
    {i \in Idx : err[i] \in {"open", "split", "decode", "unsupported"}}

\* C26: when the batch is over and every post failed at the source open, in
\* the split or in the transformation, the destination holds the files it
\* held before the run and no directory but those and the root.
C26_NothingBeforeSuccess ==
    (Over /\ result.kind = "aggregate" /\ FailedBeforeWrite = Posts) =>
      /\ dstFiles = [p \in pre |-> DocOld]
      /\ dstDirs = {SubSeq(dstDir, 1, n) : n \in 1..Len(dstDir)}
                     \cup UNION {{SubSeq(p, 1, n) : n \in 1..(Len(p) - 1)} : p \in pre}

\* C27: at every moment, the file at the destination of a task that has
\* created it holds a complete converted document.
C27_AllOrNothing ==
    \A i \in Idx :
      (pc[i] \notin {"idle", "begin"} /\ err[i] \notin EarlyErrors /\ Exists(dstPath[i]))
        => \E r \in ConvertMarkdown(cfg, docs[i]) : r.ok /\ dstFiles[dstPath[i]] = r.val

\* the source directories other than the root with no post at any depth
BarrenDirs ==
    {i \in Idx :
       /\ Entries[i].IsDir /\ Len(Entries[i].rel) > 0
       /\ \A j \in Posts :
            \/ Len(Entries[j].rel) <= Len(Entries[i].rel)
            \/ SubSeq(Entries[j].rel, 1, Len(Entries[i].rel)) # Entries[i].rel}

\* C28: a source directory with no post at any depth never has a mirrored
\* directory; and on a destination that was empty, every directory that
\* exists is the root or an ancestor of the destination of a task that has
\* got past its MkdirAll.
C28_DirectoriesOnDemand ==
    /\ \A i \in BarrenDirs : Mirror(i) \notin dstDirs
    /\ pre = {} =>
         \A d \in dstDirs :
           \/ d = dstDir
           \/ \E i \in Posts :
                /\ pc[i] \notin {"idle", "begin"}
                /\ Len(d) < Len(Mirror(i))
                /\ SubSeq(Mirror(i), 1, Len(d)) = d

\* C28 witness: the batch is over on a destination that was empty; the
\* directories sub and sub/deep are mirrored, the directory empty.md, which
\* holds nothing, is not.
C28_Witness ==
    /\ pre = {}
    /\ Over /\ Reported
    /\ 3 \in BarrenDirs
    /\ dstDirs = {dstDir, dstDir \o << <<"sub">> >>, dstDir \o << <<"sub">>, <<"deep">> >>}

\* C29: when several fields of the decoded record are stored under one name,
\* the transformed record holds that name once with the value of one of
\* them, and has one field fewer for each field whose value is gone; the
\* call returns no error when the target format has a codec, and the output
\* has one line for that name.
C29_CollisionOverwrites ==
    LET target(k) == IF k \in DOMAIN keyMap THEN keyMap[k] ELSE k
        sources(t) == {k \in DOMAIN frontMatterMap : target(k) = t}
        collided == {t \in {target(k) : k \in DOMAIN frontMatterMap} :
                       Cardinality(sources(t)) > 1}
        lost == {k \in DOMAIN frontMatterMap :
                   target(k) \in collided /\ target(k) \in DOMAIN convertedMap
                   /\ convertedMap[target(k)] # frontMatterMap[k]}
    IN  /\ Remapped =>
             /\ \A t \in collided :
                  /\ t \in DOMAIN convertedMap
                  /\ \E k \in sources(t) : convertedMap[t] = frontMatterMap[k]
                  /\ cpc = "returned" =>
                       Cardinality({n \in 1..Len(written) :
                                      written[n].t = cfg.TargetFormat /\ written[n].k = t}) = 1
             /\ Cardinality(DOMAIN convertedMap) =
                  Cardinality(DOMAIN frontMatterMap) - Cardinality(lost)
        /\ (cpc = "returned" /\ DOMAIN frontMatterMap # {} /\ cfg.TargetFormat \in Registered)
             => cerr = "nil"

\* C29 witness: under hexo2hugo a record with updated and lastmod was
\* converted without error into a record with lastmod alone, holding the
\* value updated had.
C29_Witness ==
    /\ cpc = "returned" /\ cerr = "nil"
    /\ cfg.ConversionDirection = "hexo2hugo"
    /\ DOMAIN frontMatterMap = {"updated", "lastmod"}
    /\ convertedMap = [k \in {"lastmod"} |-> SampleValue("updated")]

\* C30: what a successful call wrote is the delimiter, a newline, the
\* encoded record, which holds no delimiter, the delimiter, two newlines and
\* what followed the second delimiter of the document, whichever of the two
\* formats the target is; if the document had two delimiters so has the
\* output.
C30_OutputFraming ==
    (cpc = "returned" /\ cerr = "nil") =>
      LET n == 3 + Len(buf) IN
        /\ cfg.TargetFormat \in Registered
        /\ Len(written) >= n + 2
        /\ written[1] = Delim /\ written[2] = NL
        /\ SubSeq(written, 3, n - 1) = buf
        /\ \A m \in 1..Len(buf) : buf[m] # Delim
        /\ written[n] = Delim /\ written[n + 1] = NL /\ written[n + 2] = NL
        /\ SubSeq(written, n + 3, Len(written)) = SplitN(content, 3)[3]
        /\ DelimCount(content) = 2 => DelimCount(written) = 2

\* C30 witness: a document with two delimiters and two fields was converted
\* to TOML, and the output has two delimiters.
C30_Witness ==
    /\ cpc = "returned" /\ cerr = "nil"
    /\ cfg.TargetFormat = "toml"
    /\ Len(buf) = 2
    /\ DelimCount(content) = 2 /\ DelimCount(written) = 2

\* the errors ConvertMarkdown returns from the read, the split and the transformation
BeforeWriteErrors == {"read", "split", "decode", "unsupported"}

\* C31: a task whose ConvertMarkdown has failed in the read, the split or
\* the transformation has written nothing to the destination file it was
\* handed: the file is as os.Create left it, empty; and what a successful
\* call has written is the whole reassembled document, the converted block,
\* a blank line and the body.
C31_NoPartialOutput ==
    \A i \in Idx :
      /\ (pc[i] = "remove" /\ err[i] \in BeforeWriteErrors) =>
           (Exists(dstPath[i]) /\ dstFiles[dstPath[i]] = << >>)
      /\ (pc[i] = "done" /\ err[i] = "nil") =>
           LET split == SplitN(docs[i], 3) IN
             /\ Len(split) = 3
             /\ \E r \in ConvertFrontMatter(cfg, split[2]) :
                  r.ok /\ dstFiles[dstPath[i]] = r.val \o << NL, NL >> \o split[3]

\* C31 witness: one task's ConvertMarkdown has failed in the decoder and
\* its destination file, not yet removed, is empty, while another task's
\* call has succeeded and left a document.
C31_Witness ==
    \E i, j \in Idx :
      /\ pc[i] = "remove" /\ err[i] = "decode"
      /\ Exists(dstPath[i]) /\ dstFiles[dstPath[i]] = << >>
      /\ pc[j] = "done" /\ err[j] = "nil" /\ dstFiles[dstPath[j]] # << >>

\* C32: when the split has given three parts, the second is the text
\* between the first and the second delimiter of the document and holds no
\* delimiter, and the third is everything after the second delimiter, with
\* every further delimiter of the document in it; a successful call writes
\* that third part whole at the end of its output, so the output has as many
\* delimiters as the document.
C32_SplitsAtFirstTwo ==
    Len(parts) = 3 =>
      LET i == IndexOf(content, Delim, 1)
          j == IndexOf(content, Delim, i + 1)
      IN  /\ i > 0 /\ j > i
          /\ parts[2] = SubSeq(content, i + 1, j - 1)
          /\ \A n \in 1..Len(parts[2]) : parts[2][n] # Delim
          /\ parts[3] = SubSeq(content, j + 1, Len(content))
          /\ DelimCount(parts[3]) = DelimCount(content) - 2
          /\ (cpc = "returned" /\ cerr = "nil") =>
               /\ SubSeq(written, Len(written) - Len(parts[3]) + 1, Len(written))
                    = parts[3]
               /\ DelimCount(written) = DelimCount(content)

\* C32 witness: a document with a horizontal rule in its body, three
\* delimiters in all, was converted; its record has the two fields of the
\* block and the output has three delimiters.
C32_Witness ==
    /\ cpc = "returned" /\ cerr = "nil"
    /\ DelimCount(content) = 3
    /\ Cardinality(DOMAIN frontMatterMap) = 2
    /\ DelimCount(parts[3]) = 1
    /\ DelimCount(written) = 3

\* C33 as stated: the record the hexo2hugo map has built, remapped with the
\* hugo2hexo map, is the record that was decoded, names and values.
C33_RecordRoundTrip ==
    (Remapped /\ cfg.ConversionDirection = "hexo2hugo") =>
      \A back \in ConvertedMaps(convertedMap, KeyMapOf("hugo2hexo")) :
        back = frontMatterMap

\* the names the hexo2hugo map gives to a field of another name
HugoOnlyNames ==
    LET fwd == getHexoToHugoKeyMap IN {fwd[k] : k \in {x \in DOMAIN fwd : fwd[x] # x}}

\* C33 amended: a record that holds none of the names the hexo2hugo map
\* gives to a field of another name ("slug", "lastmod") comes back from
\* hexo2hugo and then hugo2hexo with its names and values, whether the
\* table holds its names or not; a record that holds such a name comes back
\* with that name turned into its Hexo name, and so never as it was.
C33_RecordRoundTripOfHexoNames ==
    (Remapped /\ cfg.ConversionDirection = "hexo2hugo") =>
      \A back \in ConvertedMaps(convertedMap, KeyMapOf("hugo2hexo")) :
        /\ DOMAIN frontMatterMap \cap HugoOnlyNames = {} => back = frontMatterMap
        /\ DOMAIN frontMatterMap \cap HugoOnlyNames # {} =>
             /\ back # frontMatterMap
             /\ DOMAIN back \cap HugoOnlyNames = {}
             /\ DOMAIN back =
                  {IF k \in HugoOnlyNames THEN getHugoToHexoKeyMap[k] ELSE k :
                     k \in DOMAIN frontMatterMap}

\* C33 witness: under hexo2hugo the record with permalink, which the table
\* maps, and author, which it does not hold, became the record with slug
\* and author, which hugo2hexo turns back into the first.
C33_Witness ==
    /\ Remapped /\ cfg.ConversionDirection = "hexo2hugo"
    /\ frontMatterMap = [k \in {"author", "permalink"} |-> SampleValue(k)]
    /\ DOMAIN convertedMap = {"author", "slug"}
    /\ ConvertedMaps(convertedMap, KeyMapOf("hugo2hexo")) = {frontMatterMap}

(***************************************************************************)
(* A run in place: ConvertPosts is called with the source root as its      *)
(* destination, which neither it nor the command line rejects.  The tree   *)
(* under dst is then the source tree, with the source files in it.         *)
(***************************************************************************)
\* the regular files of the source tree
SourceFiles == {i \in Idx : ~Entries[i].IsDir}

InPlaceInit ==
    /\ cfg \in Configs
    /\ docs \in Trees
    /\ outcomes = [i \in Idx |-> ConvertOutcomes(cfg, docs[i])]
    /\ dst = srcDir
    /\ dstFiles = [p \in {PathOf(i) : i \in SourceFiles} |->
                     docs[CHOOSE i \in SourceFiles : PathOf(i) = p]]
    /\ pre = DOMAIN dstFiles
    /\ dstDirs = {PathOf(i) : i \in Idx \ SourceFiles}
    /\ NotStarted

InPlaceSpec == InPlaceInit /\ [][Next]_vars

\* C34: when a batch run whose destination is its source root is over,
\* every file of the source tree is still there with the content it had.
C34_SourcesUntouched ==
    (dst = srcDir /\ Over) =>
      \A i \in SourceFiles :
        PathOf(i) \in DOMAIN dstFiles /\ dstFiles[PathOf(i)] = docs[i]

\* the first eligible file the walk comes to
FirstPost == CHOOSE i \in Posts : \A j \in Posts : i <= j

\* C35: with a limit of 0 no task ever starts, no token is ever taken, the
\* walk never gets past the first eligible file, where its dispatch cannot
\* happen, and the destination files stay as they were before the run;
\* ConvertPosts does not return, unless the environment fails first: the
\* destination root cannot be created or the enumeration fails before the
\* first dispatch.
C35_ZeroLimitBlocks ==
    cfg.MaxConcurrency = 0 =>
      /\ \A i \in Idx : pc[i] = "idle"
      /\ sem = 0 /\ wg = 0
      /\ walkIdx <= FirstPost
      /\ (Walking /\ Eligible(walkIdx)) => ~ENABLED WalkDispatch
      /\ dstFiles = [p \in pre |-> DocOld]
      /\ bpc \notin {"walked", "wait"} \/ walkFailedAt # 0
      /\ bpc = "returned" =>
           \/ result.kind = "destinit"
           \/ result.kind = "walk" /\ walkFailedAt # 0 /\ walkFailedAt <= FirstPost

\* C35 witness: with a limit of 0 the walk stands at the first eligible
\* file, which it cannot dispatch, with no failure of the environment.
C35_Witness ==
    /\ cfg.MaxConcurrency = 0
    /\ bpc = "walk" /\ walkFailedAt = 0
    /\ walkIdx = FirstPost /\ Eligible(walkIdx)
    /\ ~ENABLED WalkDispatch
    /\ \A i \in Idx : pc[i] = "idle"

\* C36: every task hands nil to the group, so the group keeps no error and
\* its context is cancelled by nothing but the return of g.Wait, when no
\* task is pending; no task leaves convertFile through the ctx.Done branch,
\* a task that is past the start of convertFile without an error from the
\* source open or the destination has reached the conversion, and g.Wait
\* never makes ConvertPosts return an error of its own.
C36_NeverCancelled ==
    /\ gErr = "nil"
    /\ ctxDone => (bpc = "returned" /\ wg = 0 /\ Running = {} /\ walkFailedAt = 0)
    /\ \A i \in Idx :
         /\ err[i] # "cancelled"
         /\ (pc[i] \in {"lock", "append", "done"} /\ err[i] \notin {"open", "mkdir", "create"})
              => (Exists(dstPath[i]) \/ err[i] \in BeforeWriteErrors \cup {"write"})
    /\ \A n \in 1..Len(conversionErrors) : conversionErrors[n].Err # "cancelled"
    /\ result.kind # "group"

\* C36 witness: with a limit of one the first post failed and the two posts
\* dispatched after its failure were both converted; g.Wait has returned nil
\* to ConvertPosts, which reports the one failure.
C36_Witness ==
    /\ cfg.MaxConcurrency = 1
    /\ Reported /\ ctxDone
    /\ err[2] = "split" /\ err[6] = "nil" /\ err[8] = "nil"
    /\ result = [kind |-> "aggregate", count |-> 1]

\* the tasks the walk has discovered that have not finished: the running
\* ones, and the eligible file the walk stands at, not yet dispatched
Pending ==
    Running \cup (IF Walking /\ Eligible(walkIdx) THEN {walkIdx} ELSE {})

\* C37: every running task holds one token of the semaphore, so at most
\* MaxConcurrency tasks are running; while that many are, the walk cannot
\* dispatch and stays at its entry, every later entry being undiscovered; so
\* at most MaxConcurrency + 1 tasks are discovered and unfinished.
C37_BackPressure ==
    /\ Cardinality(Running) = sem
    /\ sem <= cfg.MaxConcurrency
    /\ (Walking /\ Eligible(walkIdx) /\ Cardinality(Running) = cfg.MaxConcurrency)
         => ~ENABLED WalkDispatch
    /\ \A i \in Idx : i >= walkIdx => pc[i] = "idle"
    /\ Cardinality(Pending) <= cfg.MaxConcurrency + 1

\* C37 witness: with a limit of one the first post's task is running and
\* the walk stands at the second post, which it cannot dispatch: two tasks
\* are discovered and unfinished, and the third post is not yet discovered.
C37_Witness ==
    /\ cfg.MaxConcurrency = 1
    /\ Running = {2}
    /\ Walking /\ walkIdx = 6 /\ ~ENABLED WalkDispatch
    /\ Cardinality(Pending) = 2
    /\ pc[8] = "idle"

\* C38: what follows the second delimiter in what a successful call wrote is
\* two newlines and then what followed the second delimiter in the document
\* it read; the output starts with its first delimiter, whatever preceded
\* the first delimiter of the document; and a second conversion, of that
\* output from the target format, succeeds when the record has a field and
\* leaves four newlines in front of the same text.
C38_SeparatorInserted ==
    (cpc = "returned" /\ cerr = "nil") =>
      LET in == SplitN(content, 3)
          out == SplitN(written, 3)
          again == [cfg EXCEPT !.SourceFormat = cfg.TargetFormat]
      IN  /\ Len(out) = 3
          /\ out[3] = << NL, NL >> \o in[3]
          /\ Len(out[3]) = Len(in[3]) + 2
          /\ out[1] = << >>
          /\ \A r \in ConvertMarkdown(again, written) :
               /\ convertedMap # NoRecord => r.ok
               /\ r.ok => SplitN(r.val, 3)[3] = << NL, NL, NL, NL >> \o in[3]

\* C38 witness: a document with a line of text in front of its opening
\* delimiter was converted without error, and the output starts with the
\* delimiter.
C38_Witness ==
    /\ cpc = "returned" /\ cerr = "nil"
    /\ content = DocPreamble
    /\ SplitN(content, 3)[1] = << Text("draft"), NL >>
    /\ written[1] = Delim
    /\ SplitN(written, 3)[3] = << NL, NL, NL, Text("Body") >>

============================================================================
